---- MODULE Spec2Model ----
(***************************************************************************)
(* A model of toggl-jira-sync: the date window resolver (parseDateInput),  *)
(* the entry normalizer (parseTimeEntry), the grouping engine, the batch   *)
(* submission of TimetrackerClient and the sync pipeline of syncCommand.   *)
(*                                                                         *)
(* Text is modelled as a sequence of one-character strings, so that        *)
(* trimming, pattern matching and number parsing are computed and not      *)
(* assumed.  JavaScript null/undefined/"" in a text position is NoValue.   *)
(***************************************************************************)
EXTENDS Integers, Sequences, FiniteSets, TLC

(***************************************************************************)
(* Bounds of the model.                                                    *)
(***************************************************************************)
\* longest fetched entry list of a sync run
MaxEntries == 3
\* longest entry list handed to a grouping function
MaxGroupInput == 3
\* longest free-form text handed to parseDateInput
MaxInputLen == 3
\* largest day count tried as a number or padded digit string
MaxDayCount == 370
\* sync runs over the same fetched entries
MaxRuns == 2

MaxClientEntries == 2

MaxRounds == 2

MaxMergeEntries == 3

(***************************************************************************)
(* Text helpers.                                                           *)
(***************************************************************************)
NoValue == <<>>

Digits == {"0", "1", "2", "3", "4", "5", "6", "7", "8", "9"}

UpperLetters == {"A", "B", "C"}

LowerLetters == {"c", "d", "n", "o", "r", "s", "t", "u", "x", "y"}

\* \w of a JavaScript regular expression, over the alphabet of the model
WordChars == Digits \cup UpperLetters \cup LowerLetters \cup {"_"}

\* the characters String.prototype.trim removes
WhiteSpace == {" "}

DigitValue(c) ==
  CASE c = "0" -> 0 [] c = "1" -> 1 [] c = "2" -> 2 [] c = "3" -> 3
    [] c = "4" -> 4 [] c = "5" -> 5 [] c = "6" -> 6 [] c = "7" -> 7
    [] c = "8" -> 8 [] c = "9" -> 9

DigitChar(d) ==
  CASE d = 0 -> "0" [] d = 1 -> "1" [] d = 2 -> "2" [] d = 3 -> "3"
    [] d = 4 -> "4" [] d = 5 -> "5" [] d = 6 -> "6" [] d = 7 -> "7"
    [] d = 8 -> "8" [] d = 9 -> "9"

AllIn(s, set) == \A i \in 1..Len(s) : s[i] \in set

\* String.prototype.trim
RECURSIVE TrimLeft(_)
TrimLeft(s) ==
  IF s # <<>> /\ Head(s) \in WhiteSpace THEN TrimLeft(Tail(s)) ELSE s

RECURSIVE TrimRight(_)
TrimRight(s) ==
  IF s # <<>> /\ s[Len(s)] \in WhiteSpace
  THEN TrimRight(SubSeq(s, 1, Len(s) - 1))
  ELSE s

Trim(s) == TrimRight(TrimLeft(s))

\* parseInt(s, 10) of an all-digit text
RECURSIVE ParseDigits(_)
ParseDigits(s) ==
  IF s = <<>> THEN 0
  ELSE ParseDigits(SubSeq(s, 1, Len(s) - 1)) * 10 + DigitValue(s[Len(s)])

\* String(n) of a non-negative integer
RECURSIVE NatToString(_)
NatToString(n) ==
  IF n < 10 THEN <<DigitChar(n)>>
  ELSE Append(NatToString(n \div 10), DigitChar(n % 10))

\* String(n) of an integer
IntToString(n) == IF n < 0 THEN <<"-">> \o NatToString(0 - n) ELSE NatToString(n)

(***************************************************************************)
(* State.                                                                  *)
(*   dInput, dNow, dResult, dPc : one call of parseDateInput               *)
(*   gIn, gPerm : an entry list and a permutation of it                    *)
(*   gMode, gOut, gOutPerm, gPc : one grouping of each of the two lists    *)
(*   fetched : the raw entries the entry source returns in every run      *)
(*   useJira : options.jira, the submission mode                           *)
(*   ledger : the persisted records of SyncHistory                         *)
(*   run, pc, lastEnd : the run number, the position of syncCommand in it, *)
(*     and how the previous run ended                                      *)
(*   alreadySyncedEntries, unsyncedEntries, groupedJiraEntries,            *)
(*   allParsedEntries, workLogs, results : locals of syncCommand           *)
(*   loopAt, index : the positions of the loop of batchCreateWorkLogs and  *)
(*     of the forEach over results.successful                              *)
(*   nextId : the id the downstream system gives its next work log         *)
(*   calls, inFlight, created, marked, createdEarlier : history of the     *)
(*     run: the create operations issued, those not yet returned, those    *)
(*     that succeeded, the (entry, work-log id) pairs handed to            *)
(*     markEntriesAsSynced, and the entries created in earlier runs        *)
(***************************************************************************)
VARIABLES dInput, dNow, dResult, dPc,
          gIn, gPerm, gMode, gOut, gOutPerm, gPc,
          fetched, useJira, ledger, run, pc, lastEnd,
          alreadySyncedEntries, unsyncedEntries, groupedJiraEntries,
          allParsedEntries, workLogs, results, loopAt, index,
          nextId, calls, inFlight, created, marked, createdEarlier,
          dryRun, confirmed, failure, summaryTotals,
          issueKeyToIdCache, worklogTagsCache, cEntries, cWorkLogs,
          cRequests, cCacheBefore, cLookup, cPc, cRound,
          mParsed, mAssignments, mPending, mAssigned, mMerged, mWorkLogs, mPc

(***************************************************************************)
(* Date window resolver: parseDateInput.                                   *)
(* An input is a JavaScript value: a string, a number, null or undefined.  *)
(* A dayjs value is [day, secs]: the calendar day number and the seconds   *)
(* since the start of that day, in local time.                             *)
(***************************************************************************)
StringInput(text) == [kind |-> "string", text |-> text]

NumberInput(n) == [kind |-> "number", value |-> n]

NullInput == [kind |-> "null"]

UndefinedInput == [kind |-> "undefined"]

\* "Maximum is 365 days"
MaxDaysAgo == 365

\* !input && input !== 0
InputIsMissing_NoZeroGuard(input) ==
  \/ input.kind \in {"null", "undefined"}
  \/ input.kind = "string" /\ input.text = <<>>
  \/ input.kind = "number" /\ input.value = 0

InputIsMissing(input) ==
  /\ \/ input.kind \in {"null", "undefined"}
     \/ input.kind = "string" /\ input.text = <<>>
     \/ input.kind = "number" /\ input.value = 0
  /\ ~(input.kind = "number" /\ input.value = 0)

\* String(input), for an input that is not missing
ToStr(input) ==
  IF input.kind = "number" THEN IntToString(input.value) ELSE input.text

\* /^\d+$/
integerPattern(s) == s # <<>> /\ AllIn(s, Digits)

\* /^-\d+$/
negativeIntegerPattern_Never(s) == FALSE

negativeIntegerPattern(s) ==
  /\ Len(s) >= 2
  /\ s[1] = "-"
  /\ AllIn(Tail(s), Digits)

\* daysAgo > 365
ExceedsMaximum(daysAgo) == daysAgo > MaxDaysAgo

\* dayjs().subtract(daysAgo, 'day').startOf('day')
DaysAgoStartOfDay(now, daysAgo) ==
  LET moved == [day |-> now.day - daysAgo, secs |-> now.secs]
  IN  [day |-> moved.day, secs |-> 0]

Thrown(err) == [tag |-> "throw", error |-> err]

parseDateInput(input, now) ==
  IF InputIsMissing(input) THEN Thrown("Date input is required")
  ELSE
    LET inputStr == Trim(ToStr(input)) IN
    IF negativeIntegerPattern(inputStr)
    THEN Thrown("Must be a non-negative integer")
    ELSE IF integerPattern(inputStr)
    THEN LET daysAgo == ParseDigits(inputStr) IN
         IF ExceedsMaximum(daysAgo)
         THEN Thrown("Maximum is 365 days")
         ELSE [tag |-> "daysAgo", date |-> DaysAgoStartOfDay(now, daysAgo)]
    \* dayjs(inputStr): a date value that may be invalid
    ELSE [tag |-> "dayjs", text |-> inputStr]

(***************************************************************************)
(* Inputs of parseDateInput tried by SpecDate.                             *)
(***************************************************************************)
DateAlphabet == {"0", "7", "-", " ", ".", "d"}

FreeTexts == UNION {[1..n -> DateAlphabet] : n \in 0..MaxInputLen}

Spaces(n) == [i \in 1..n |-> " "]

\* a day count written in digits, with optional surrounding whitespace
PaddedDayCount(n, l, r) == Spaces(l) \o NatToString(n) \o Spaces(r)

DateInputs ==
  {NullInput, UndefinedInput}
    \cup {NumberInput(n) : n \in (0 - 2)..MaxDayCount}
    \cup {StringInput(t) : t \in FreeTexts}
    \cup {StringInput(PaddedDayCount(n, l, r)) :
            n \in 0..MaxDayCount, l \in 0..1, r \in 0..1}

NowValues == {[day |-> d, secs |-> s] : d \in {1000, 1001}, s \in {0, 43200}}

dvars == <<dInput, dNow, dResult, dPc>>

DateInit ==
  /\ dInput \in DateInputs
  /\ dNow \in NowValues
  /\ dResult = [tag |-> "none"]
  /\ dPc = "input"

ResolveDate ==
  /\ dPc = "input"
  /\ dResult' = parseDateInput(dInput, dNow)
  /\ dPc' = "done"
  /\ UNCHANGED <<dInput, dNow>>

(***************************************************************************)
(* Entry normalizer: extractJiraIssueKey and parseTimeEntry.               *)
(* A start timestamp is [date, hour]: the calendar date written before the *)
(* 'T' of the ISO text and the time written after it.                      *)
(***************************************************************************)
\* a regular-expression word boundary before position i of s
BoundaryBefore(s, i) == i = 1 \/ s[i - 1] \notin WordChars

\* a regular-expression word boundary after position k of s
BoundaryAfter(s, k) == k = Len(s) \/ s[k + 1] \notin WordChars

\* /\b([A-Z][A-Z0-9]+-\d+)\b/ matches s[i..k], the hyphen being at j
KeyMatch(s, i, j, k) ==
  /\ BoundaryBefore(s, i)
  /\ s[i] \in UpperLetters
  /\ j >= i + 2
  /\ \A m \in (i + 1)..(j - 1) : s[m] \in UpperLetters \cup Digits
  /\ s[j] = "-"
  /\ k >= j + 1
  /\ \A m \in (j + 1)..k : s[m] \in Digits
  /\ BoundaryAfter(s, k)

KeyMatchAt(s, i) == \E j \in i..Len(s) : \E k \in j..Len(s) : KeyMatch(s, i, j, k)

extractJiraIssueKey(description) ==
  IF description = NoValue THEN NoValue
  ELSE
    LET starts == {i \in 1..Len(description) : KeyMatchAt(description, i)} IN
    IF starts = {} THEN NoValue
    ELSE
      LET i == CHOOSE a \in starts : \A b \in starts : a <= b
          k == CHOOSE c \in i..Len(description) :
                 \E j \in i..c : KeyMatch(description, i, j, c)
      IN  SubSeq(description, i, k)

\* entry.tags as the entry source sends it: an array of tag names, or null
TagList(names) == [isArray |-> TRUE, names |-> names]

NullTags == [isArray |-> FALSE, names |-> <<>>]

\* a normalizer that copies the raw duration and the raw tag field
parseTimeEntry_Unclamped(entry) ==
  [ id |-> entry.id,
    description |-> entry.description,
    durationSeconds |-> entry.duration,
    startedAt |-> entry.start,
    issueKey |-> extractJiraIssueKey(entry.description),
    hasJiraIssue |-> extractJiraIssueKey(entry.description) # NoValue,
    hasTags |-> entry.tags.isArray /\ Len(entry.tags.names) > 0,
    tags |-> entry.tags.names ]

parseTimeEntry(entry) ==
  LET issueKey == extractJiraIssueKey(entry.description) IN
  [ id |-> entry.id,
    description |-> entry.description,
    durationSeconds |-> IF entry.duration > 0 THEN entry.duration ELSE 0,
    startedAt |-> entry.start,
    issueKey |-> issueKey,
    hasJiraIssue |-> issueKey # NoValue,
    hasTags |-> entry.tags.isArray /\ Len(entry.tags.names) > 0,
    tags |-> IF entry.tags.isArray THEN entry.tags.names ELSE <<>> ]

(***************************************************************************)
(* Sequence helpers (Array.prototype.filter, reduce, sort).                *)
(***************************************************************************)
RECURSIVE SumDurations(_)
SumDurations(entries) ==
  IF entries = <<>> THEN 0
  ELSE Head(entries).durationSeconds + SumDurations(Tail(entries))

\* new Date(startedAt), as hours since the epoch of the model
Instant(startedAt) == startedAt.date * 24 + startedAt.hour

\* startedAt.split('T')[0]
DateOf(startedAt) == startedAt.date

\* entries.sort((a, b) => new Date(a.startedAt) - new Date(b.startedAt)):
\* Array.prototype.sort is stable
RECURSIVE InsertByStart(_, _)
InsertByStart(sorted, e) ==
  IF sorted = <<>> THEN <<e>>
  ELSE IF Instant(sorted[Len(sorted)].startedAt) <= Instant(e.startedAt)
  THEN Append(sorted, e)
  ELSE Append(InsertByStart(SubSeq(sorted, 1, Len(sorted) - 1), e),
              sorted[Len(sorted)])

\* a sort that leaves the array as it is
SortByStart_Unsorted(entries) == entries

RECURSIVE SortByStart(_)
SortByStart(entries) ==
  IF entries = <<>> THEN <<>>
  ELSE InsertByStart(SortByStart(SubSeq(entries, 1, Len(entries) - 1)),
                     entries[Len(entries)])

\* the position of the group stored under key, 0 when there is none
IndexOfKey(groups, key) ==
  IF \E i \in 1..Len(groups) : groups[i].key = key
  THEN CHOOSE i \in 1..Len(groups) : groups[i].key = key
  ELSE 0

(***************************************************************************)
(* Grouping engine.  A JavaScript object used as a map is the sequence of  *)
(* its own entries in insertion order, each carrying its key.              *)
(***************************************************************************)
\* grouped[groupKey].totalSeconds += entry.durationSeconds
Accumulate_Overwrite(total, seconds) == seconds

Accumulate(total, seconds) == total + seconds

\* one iteration of the forEach of groupEntriesByDate
AddToDateGroup(grouped, entry, issueKey) ==
  LET date == DateOf(entry.startedAt)
      ik == IF issueKey # NoValue THEN issueKey ELSE entry.issueKey
      groupKey == <<ik, date>>
      at == IndexOfKey(grouped, groupKey)
      withKey == IF at # 0 THEN grouped
                 ELSE Append(grouped, [ key |-> groupKey, issueKey |-> ik,
                                        date |-> date, entries |-> <<>>,
                                        totalSeconds |-> 0 ])
      pos == IF at # 0 THEN at ELSE Len(withKey)
  IN  [withKey EXCEPT
         ![pos].entries = Append(@, entry),
         ![pos].totalSeconds = Accumulate(@, entry.durationSeconds)]

RECURSIVE FoldDateGroups(_, _, _)
FoldDateGroups(grouped, entries, issueKey) ==
  IF entries = <<>> THEN grouped
  ELSE FoldDateGroups(AddToDateGroup(grouped, Head(entries), issueKey),
                      Tail(entries), issueKey)

groupEntriesByDate(entries, issueKey) ==
  LET grouped == FoldDateGroups(<<>>, entries, issueKey) IN
  [i \in 1..Len(grouped) |->
     [grouped[i] EXCEPT !.entries = SortByStart(@)]]

groupEntriesByIssueKeyAndDate(entries) ==
  LET validEntries == SelectSeq(entries, LAMBDA entry : entry.issueKey # NoValue)
  IN  groupEntriesByDate(validEntries, NoValue)

\* "(No description)"
NoDescription ==
  <<"(", "N", "o", " ", "d", "e", "s", "c", "r", "i", "p", "t", "i", "o", "n", ")">>

\* `const grouped = {}` inherits the properties of Object.prototype: for these
\* keys grouped[key] is an inherited function before any group is stored
ObjectPrototypeKeys ==
  { <<"c", "o", "n", "s", "t", "r", "u", "c", "t", "o", "r">>,
    <<"t", "o", "S", "t", "r", "i", "n", "g">> }

\* one iteration of the forEach of groupEntriesByDescription; the result is
\* TypeError when grouped[key].entries.push is not callable
AddToDescriptionGroup(grouped, entry) ==
  LET key == IF entry.description # NoValue THEN entry.description
             ELSE NoDescription
      at == IndexOfKey(grouped.groups, key)
      inherited == at = 0 /\ key \in ObjectPrototypeKeys
      withKey == IF at # 0 THEN grouped.groups
                 ELSE Append(grouped.groups, [ key |-> key, description |-> key,
                                               entries |-> <<>>,
                                               totalSeconds |-> 0 ])
      pos == IF at # 0 THEN at ELSE Len(withKey)
  IN  IF grouped.threw \/ inherited
      THEN [threw |-> TRUE, groups |-> <<>>]
      ELSE [threw |-> FALSE,
            groups |-> [withKey EXCEPT
               ![pos].entries = Append(@, entry),
               ![pos].totalSeconds = Accumulate(@, entry.durationSeconds)]]

RECURSIVE FoldDescriptionGroups(_, _)
FoldDescriptionGroups(grouped, entries) ==
  IF entries = <<>> THEN grouped
  ELSE FoldDescriptionGroups(AddToDescriptionGroup(grouped, Head(entries)),
                             Tail(entries))

\* [threw, groups]: threw when the call ends in a TypeError
groupEntriesByDescription(entries) ==
  FoldDescriptionGroups([threw |-> FALSE, groups |-> <<>>], entries)

(***************************************************************************)
(* Raw entries tried by the model, as the entry source returns them.       *)
(***************************************************************************)
Raw(description, date, hour, duration, tags) ==
  [ id |-> 0, description |-> description,
    start |-> [date |-> date, hour |-> hour],
    duration |-> duration, tags |-> tags ]

TextAB1 == <<"A", "B", "-", "1", " ", "x">>

TextAB2 == <<"A", "B", "-", "2">>

TextPlain == <<"x">>

TextConstructor == <<"c", "o", "n", "s", "t", "r", "u", "c", "t", "o", "r">>

OneTag == <<"t">>

RawTemplates ==
  { Raw(TextAB1, 1, 9, 600, TagList(OneTag)),
    Raw(TextAB1, 1, 8, 900, TagList(OneTag)),
    Raw(TextAB1, 1, 10, 1800, TagList(OneTag)),
    Raw(TextAB1, 2, 9, 900, TagList(<<>>)),
    Raw(TextAB2, 1, 9, 600, TagList(OneTag)),
    Raw(TextPlain, 1, 8, 600, TagList(OneTag)),
    Raw(NoValue, 1, 9, 0 - 1, NullTags),
    Raw(TextConstructor, 2, 9, 900, TagList(OneTag)),
    Raw(TextPlain, 2, 9, 900, TagList(<<>>)) }

\* the raw entries tried by the sync runs
SyncTemplates ==
  { Raw(TextAB1, 1, 9, 600, TagList(OneTag)),
    Raw(TextAB1, 1, 8, 900, TagList(OneTag)),
    Raw(TextAB1, 2, 9, 900, TagList(<<>>)),
    Raw(TextPlain, 1, 8, 600, TagList(OneTag)),
    Raw(NoValue, 1, 9, 0 - 1, NullTags),
    Raw(TextConstructor, 2, 9, 900, TagList(OneTag)) }

\* the lists of at most n entries; the source gives every entry its own id
RawLists(templates, n) ==
  UNION { { [i \in 1..k |-> [f[i] EXCEPT !.id = i]] : f \in [1..k -> templates] }
          : k \in 0..n }

\* timeEntries.map(parseTimeEntry)
ParseAll(rawList) == [i \in 1..Len(rawList) |-> parseTimeEntry(rawList[i])]

\* the rearrangements of a list
PermutationsOf(list) ==
  { [i \in 1..Len(list) |-> list[p[i]]] :
      p \in { q \in [1..Len(list) -> 1..Len(list)] :
                \A a, b \in 1..Len(list) : a # b => q[a] # q[b] } }

(***************************************************************************)
(* SpecGroup: the two grouping modes applied to a list and a permutation.  *)
(***************************************************************************)
gvars == <<gIn, gPerm, gMode, gOut, gOutPerm, gPc>>

NoGroups == [threw |-> FALSE, groups |-> <<>>]

GroupInit ==
  /\ gIn \in {ParseAll(r) : r \in RawLists(RawTemplates, MaxGroupInput)}
  /\ gPerm \in PermutationsOf(gIn)
  /\ gMode = "none"
  /\ gOut = NoGroups
  /\ gOutPerm = NoGroups
  /\ gPc = "input"

GroupByIssueKeyAndDate ==
  /\ gPc = "input"
  /\ gMode' = "issueDate"
  /\ gOut' = [threw |-> FALSE, groups |-> groupEntriesByIssueKeyAndDate(gIn)]
  /\ gOutPerm' = [threw |-> FALSE, groups |-> groupEntriesByIssueKeyAndDate(gPerm)]
  /\ gPc' = "done"
  /\ UNCHANGED <<gIn, gPerm>>

GroupByDescription ==
  /\ gPc = "input"
  /\ gMode' = "description"
  /\ gOut' = groupEntriesByDescription(gIn)
  /\ gOutPerm' = groupEntriesByDescription(gPerm)
  /\ gPc' = "done"
  /\ UNCHANGED <<gIn, gPerm>>

(***************************************************************************)
(* Sync ledger (SyncHistory).                                              *)
(***************************************************************************)
\* start timestamp + issue reference, or start timestamp + description
computeIdentity(entry) ==
  <<entry.startedAt,
    IF entry.issueKey # NoValue THEN entry.issueKey ELSE entry.description>>

LedgerIdentities(records) == {records[n].entryIdentity : n \in 1..Len(records)}

IsSynced(records, entry) == computeIdentity(entry) \in LedgerIdentities(records)

\* a filter that finds no entry in the ledger
filterUnsyncedEntries_NoneSynced(records, entries) ==
  [synced |-> <<>>, unsynced |-> entries]

filterUnsyncedEntries(records, entries) ==
  [ synced |-> SelectSeq(entries, LAMBDA e : IsSynced(records, e)),
    unsynced |-> SelectSeq(entries, LAMBDA e : ~IsSynced(records, e)) ]

markEntriesAsSynced(records, entries, issueKey, workLogId) ==
  records \o [n \in 1..Len(entries) |->
                [ entryIdentity |-> computeIdentity(entries[n]),
                  issueKey |-> issueKey,
                  downstreamWorkLogId |-> workLogId ]]

(***************************************************************************)
(* Payloads.  src is the position of a payload in the list handed to       *)
(* batchCreateWorkLogs (the identity of the JavaScript object); of is the  *)
(* ids of the entries it was built from.  Neither is read by the program.  *)
(***************************************************************************)
\* prepareSummaryData(...).jiraWorkLogs
SummaryJiraWorkLogs(jiraEntries) ==
  [n \in 1..Len(jiraEntries) |->
     [ issueKey |-> jiraEntries[n].issueKey,
       date |-> jiraEntries[n].date,
       timeSpentSeconds |-> jiraEntries[n].totalSeconds,
       startedAt |-> jiraEntries[n].entries[1].startedAt,
       entryCount |-> Len(jiraEntries[n].entries),
       entries |-> jiraEntries[n].entries ]]

EntryIds(entries) == {entries[n].id : n \in 1..Len(entries)}

formatJiraWorkLogWithBreakdown(issueKey, entries, date, src) ==
  [ issueKey |-> issueKey,
    date |-> date,
    timeSpentSeconds |-> SumDurations(entries),
    startedAt |-> entries[1].startedAt,
    entryCount |-> Len(entries),
    entries |-> entries,
    src |-> src,
    of |-> EntryIds(entries) ]

\* worklogTagIds is undefined (NoValue) when no tag id was found
formatTimetrackerWorklog(parsedEntry, worklogTagIds, issueId, src) ==
  [ description |-> parsedEntry.description,
    durationInSeconds |-> parsedEntry.durationSeconds,
    issueId |-> issueId,
    workDate |-> parsedEntry.startedAt.date,
    workStartTime |-> parsedEntry.startedAt.hour,
    worklogTagIds |-> IF Len(worklogTagIds) > 0 THEN worklogTagIds ELSE NoValue,
    src |-> src,
    of |-> {parsedEntry.id} ]

\* for (const workLog of summary.jiraWorkLogs) allParsedEntries.push(...workLog.entries)
RECURSIVE ConcatEntries(_)
ConcatEntries(logs) ==
  IF logs = <<>> THEN <<>>
  ELSE Head(logs).entries \o ConcatEntries(Tail(logs))

\* unsyncedEntries.filter((e) => e.hasJiraIssue)
PendingJiraEntries_All(parsedEntries, unsynced) ==
  SelectSeq(parsedEntries, LAMBDA e : e.hasJiraIssue)

PendingJiraEntries(parsedEntries, unsynced) ==
  SelectSeq(unsynced, LAMBDA e : e.hasJiraIssue)

\* the key of the first group with the work log's issue key that holds an
\* entry with the work log's start; NoValue for undefined
findGroupByWorkLog(groupedEntries, workLog) ==
  LET hits == { n \in 1..Len(groupedEntries) :
                  /\ groupedEntries[n].issueKey = workLog.issueKey
                  /\ \E m \in 1..Len(groupedEntries[n].entries) :
                       groupedEntries[n].entries[m].startedAt = workLog.startedAt }
  IN  IF hits = {} THEN NoValue
      ELSE groupedEntries[CHOOSE n \in hits : \A m \in hits : n <= m].key

(***************************************************************************)
(* Batch submission: TimetrackerClient.batchCreateWorkLogs.                *)
(***************************************************************************)
NoResults == [successful |-> <<>>, failed |-> <<>>]

\* results.successful.push({ ...workLog, workLogId: result.id })
RecordSuccess(res, workLog, id) ==
  [res EXCEPT !.successful = Append(@, [workLog |-> workLog, workLogId |-> id])]

\* catch (error) { results.failed.push({ ...workLog, error: error.message }) }
RecordFailure_Swallow(res, workLog, message) == res

RecordFailure(res, workLog, message) ==
  [res EXCEPT !.failed = Append(@, [workLog |-> workLog, error |-> message])]

\* where the for-of loop continues after the catch block; n is the list length
AfterFailure_Abort(at, n) == n + 1

AfterFailure(at, n) == at + 1

\* 'NO_ISSUE'
NoIssue == <<"N", "O", "_", "I", "S", "S", "U", "E">>

(***************************************************************************)
(* TimetrackerClient: the tag cache, the issue-id cache and the payload    *)
(* built from one entry.  A remote call is given with its answer: threw    *)
(* says that the call failed.                                              *)
(***************************************************************************)
\* String.prototype.toLowerCase on the tag names of the model
toLowerCase(name) == IF name = "T" THEN "t" ELSE IF name = "U" THEN "u" ELSE name

\* this.worklogTagsCache = null
NoTagsCache == [loaded |-> FALSE, tags |-> <<>>]

\* a tag listing with no tag in it is cached too: [] is truthy
getWorklogTags(tagsCache, answer) ==
  IF tagsCache.loaded
  THEN [threw |-> FALSE, cache |-> tagsCache, tags |-> tagsCache.tags]
  ELSE IF answer.threw
  THEN [threw |-> TRUE, cache |-> tagsCache, tags |-> <<>>]
  ELSE [threw |-> FALSE, cache |-> [loaded |-> TRUE, tags |-> answer.tags],
        tags |-> answer.tags]

\* tagMap.get(tag.toLowerCase()): the id of the last listed tag of that name,
\* 0 for undefined
TagIdOf(worklogTags, tag) ==
  LET hits == {n \in 1..Len(worklogTags) :
                 toLowerCase(worklogTags[n].name) = toLowerCase(tag)}
  IN  IF hits = {} THEN 0
      ELSE worklogTags[CHOOSE n \in hits : \A m \in hits : m <= n].id

RECURSIVE TagIdsOf(_, _)
TagIdsOf(worklogTags, togglTags) ==
  IF togglTags = <<>> THEN <<>>
  ELSE (IF TagIdOf(worklogTags, Head(togglTags)) # 0
        THEN <<TagIdOf(worklogTags, Head(togglTags))>> ELSE <<>>)
       \o TagIdsOf(worklogTags, Tail(togglTags))

mapTagsToWorklogTagIds(tagsCache, togglTags, answer) ==
  IF Len(togglTags) = 0
  THEN [threw |-> FALSE, cache |-> tagsCache, ids |-> <<>>]
  ELSE LET got == getWorklogTags(tagsCache, answer) IN
       [threw |-> got.threw, cache |-> got.cache,
        ids |-> IF got.threw THEN <<>> ELSE TagIdsOf(got.tags, togglTags)]

\* this.issueKeyToIdCache = new Map(): a function from issue keys to ids
NoIssueIds == [key \in {} |-> NoValue]

\* the id Jira has for an issue key
IssueIdOf(key) == <<"#">> \o key

\* the answer of jiraClient.bulkFetchIssueIds(keys): the ids of the requested
\* keys that Jira knows
BulkAnswerMap(answer, keys) ==
  [key \in {keys[n] : n \in 1..Len(keys)} \cap answer.known |-> IssueIdOf(key)]

\* this.issueKeyToIdCache.set(key, id) for every entry of the answer
CacheAll(cache, found) ==
  [key \in DOMAIN cache \cup DOMAIN found |->
     IF key \in DOMAIN found THEN found[key] ELSE cache[key]]

\* a lookup that empties the cache when Jira fails
fetchIssueIds_ClearOnThrow(cache, issueKeys, answer) ==
  LET uncachedKeys == SelectSeq(issueKeys, LAMBDA key : key \notin DOMAIN cache) IN
  IF Len(issueKeys) = 0 \/ Len(uncachedKeys) = 0
  THEN [cache |-> cache, requested |-> <<>>, warned |-> FALSE]
  ELSE IF answer.threw
  THEN [cache |-> NoIssueIds, requested |-> <<uncachedKeys>>, warned |-> TRUE]
  ELSE [cache |-> CacheAll(cache, BulkAnswerMap(answer, uncachedKeys)),
        requested |-> <<uncachedKeys>>, warned |-> FALSE]

\* fetchIssueIds: the cache afterwards, the key lists requested from Jira and
\* whether the warning was logged
fetchIssueIds(cache, issueKeys, answer) ==
  LET uncachedKeys == SelectSeq(issueKeys, LAMBDA key : key \notin DOMAIN cache) IN
  IF Len(issueKeys) = 0 \/ Len(uncachedKeys) = 0
  THEN [cache |-> cache, requested |-> <<>>, warned |-> FALSE]
  ELSE IF answer.threw
  THEN [cache |-> cache, requested |-> <<uncachedKeys>>, warned |-> TRUE]
  ELSE [cache |-> CacheAll(cache, BulkAnswerMap(answer, uncachedKeys)),
        requested |-> <<uncachedKeys>>, warned |-> FALSE]

\* Array.from(issueKeys): the distinct issue keys in order of first appearance
RECURSIVE DistinctIssueKeys(_, _)
DistinctIssueKeys(parsedEntries, seen) ==
  IF parsedEntries = <<>> THEN seen
  ELSE DistinctIssueKeys(Tail(parsedEntries),
         IF Head(parsedEntries).issueKey # NoValue
            /\ \A n \in 1..Len(seen) : seen[n] # Head(parsedEntries).issueKey
         THEN Append(seen, Head(parsedEntries).issueKey)
         ELSE seen)

prefetchIssueIds(cache, parsedEntries, answer) ==
  LET issueKeys == DistinctIssueKeys(parsedEntries, <<>>) IN
  IF Len(issueKeys) > 0 THEN fetchIssueIds(cache, issueKeys, answer)
  ELSE [cache |-> cache, requested |-> <<>>, warned |-> FALSE]

\* threw when the tag listing failed; cache is the tag cache afterwards
convertParsedEntryToWorklog(issueCache, tagsCache, parsedEntry, answer, src) ==
  LET mapped == mapTagsToWorklogTagIds(tagsCache, parsedEntry.tags, answer)
      issueId == IF parsedEntry.issueKey # NoValue
                    /\ parsedEntry.issueKey \in DOMAIN issueCache
                 THEN issueCache[parsedEntry.issueKey]
                 ELSE NoValue
  IN  [threw |-> mapped.threw, cache |-> mapped.cache,
       workLog |-> formatTimetrackerWorklog(parsedEntry, mapped.ids, issueId, src)]

\* for (const entry of allParsedEntries) timetrackerWorkLogs.push(await
\* client.convertParsedEntryToWorklog(entry)): the exception of a conversion
\* ends the loop
RECURSIVE ConvertAll(_, _, _, _, _)
ConvertAll(issueCache, tagsCache, entries, answer, built) ==
  IF Len(built) = Len(entries) THEN [threw |-> FALSE, workLogs |-> built]
  ELSE LET c == convertParsedEntryToWorklog(issueCache, tagsCache,
                  entries[Len(built) + 1], answer, Len(built) + 1)
       IN  IF c.threw THEN [threw |-> TRUE, workLogs |-> <<>>]
           ELSE ConvertAll(issueCache, c.cache, entries, answer,
                           Append(built, c.workLog))

\* the answers of the tag listing tried by the sync runs
TagAnswers ==
  { [threw |-> TRUE, tags |-> <<>>],
    [threw |-> FALSE, tags |-> <<[name |-> "T", id |-> 7]>>] }

\* the answers of the bulk issue lookup tried by the sync runs
BulkAnswers ==
  { [threw |-> TRUE, known |-> {}],
    [threw |-> FALSE, known |-> {<<"A", "B", "-", "1">>}] }

(***************************************************************************)
(* Summary aggregator: the totals of prepareSummaryData, in seconds.       *)
(***************************************************************************)
RECURSIVE SumTotalSeconds(_)
SumTotalSeconds(groups) ==
  IF groups = <<>> THEN 0
  ELSE Head(groups).totalSeconds + SumTotalSeconds(Tail(groups))

\* syncHistory.groupSyncedEntriesByIssue: one group per issue key
RECURSIVE groupSyncedEntriesByIssue(_)
groupSyncedEntriesByIssue(entries) ==
  IF entries = <<>> THEN <<>>
  ELSE LET rest == groupSyncedEntriesByIssue(SubSeq(entries, 1, Len(entries) - 1))
           entry == entries[Len(entries)]
           key == IF entry.issueKey # NoValue THEN entry.issueKey ELSE NoIssue
           at == IndexOfKey(rest, key)
       IN  IF at = 0
           THEN Append(rest, [ key |-> key, entries |-> <<entry>>,
                               totalSeconds |-> entry.durationSeconds ])
           ELSE [rest EXCEPT ![at].entries = Append(@, entry),
                             ![at].totalSeconds = @ + entry.durationSeconds]

NoTotals ==
  [ jiraTimeSeconds |-> 0, nonJiraTimeSeconds |-> 0,
    entriesWithoutTagsTimeSeconds |-> 0, alreadySyncedTimeSeconds |-> 0,
    totalTimeSeconds |-> 0 ]

\* prepareSummaryData(...).totals
SummaryTotals(jiraEntries, nonJiraEntries, entriesWithoutTags, alreadySynced) ==
  LET totalJiraTime == SumTotalSeconds(
        [n \in 1..Len(jiraEntries) |->
           [totalSeconds |-> SummaryJiraWorkLogs(jiraEntries)[n].timeSpentSeconds]])
      totalNonJiraTime == SumTotalSeconds(nonJiraEntries)
      totalAlreadySyncedTime == SumTotalSeconds(alreadySynced)
      totalEntriesWithoutTagsTime == SumTotalSeconds(entriesWithoutTags)
  IN  [ jiraTimeSeconds |-> totalJiraTime,
        nonJiraTimeSeconds |-> totalNonJiraTime,
        entriesWithoutTagsTimeSeconds |-> totalEntriesWithoutTagsTime,
        alreadySyncedTimeSeconds |-> totalAlreadySyncedTime,
        totalTimeSeconds |-> totalJiraTime + totalNonJiraTime
                               + totalAlreadySyncedTime
                               + totalEntriesWithoutTagsTime ]

\* where syncCommand goes once the summary is shown: it returns when there is
\* no work log to create or when options.dryRun is set
AfterSummary_IgnoreDryRun(workLogCount, dry) ==
  IF workLogCount = 0 THEN "done" ELSE "confirm"

AfterSummary(workLogCount, dry) ==
  IF workLogCount = 0 THEN "done"
  ELSE IF dry THEN "done"
  ELSE "confirm"

(***************************************************************************)
(* Spec: runs of syncCommand over the same fetched entries.                *)
(***************************************************************************)
svars == <<fetched, useJira, ledger, run, pc, lastEnd,
           alreadySyncedEntries, unsyncedEntries, groupedJiraEntries,
           allParsedEntries, workLogs, results, loopAt, index,
           nextId, calls, inFlight, created, marked, createdEarlier,
           dryRun, confirmed, failure, summaryTotals>>

\* the state of a TimetrackerClient used for several batches
cvars == <<issueKeyToIdCache, worklogTagsCache, cEntries, cWorkLogs,
           cRequests, cCacheBefore, cLookup, cPc, cRound>>

\* the interactive assignment of entries without an issue key
mvars == <<mParsed, mAssignments, mPending, mAssigned, mMerged, mWorkLogs, mPc>>

vars == <<dvars, gvars, svars, cvars, mvars>>

\* the part of the state a specification does not use
DateIdle ==
  /\ dInput = NullInput
  /\ dNow = [day |-> 0, secs |-> 0]
  /\ dResult = [tag |-> "none"]
  /\ dPc = "idle"

GroupIdle ==
  /\ gIn = <<>>
  /\ gPerm = <<>>
  /\ gMode = "none"
  /\ gOut = NoGroups
  /\ gOutPerm = NoGroups
  /\ gPc = "idle"

RunLocalsInit ==
  /\ alreadySyncedEntries = <<>>
  /\ unsyncedEntries = <<>>
  /\ groupedJiraEntries = <<>>
  /\ allParsedEntries = <<>>
  /\ workLogs = <<>>
  /\ results = NoResults
  /\ loopAt = 1
  /\ index = 1
  /\ calls = <<>>
  /\ inFlight = {}
  /\ created = <<>>
  /\ marked = {}
  /\ dryRun = FALSE
  /\ confirmed = FALSE
  /\ failure = "none"
  /\ summaryTotals = NoTotals

SyncIdle ==
  /\ fetched = <<>>
  /\ useJira = FALSE
  /\ ledger = <<>>
  /\ run = 0
  /\ pc = "idle"
  /\ lastEnd = "none"
  /\ nextId = 1
  /\ createdEarlier = {}
  /\ RunLocalsInit

SyncInit ==
  /\ fetched \in RawLists(SyncTemplates, MaxEntries)
  /\ useJira \in BOOLEAN
  /\ ledger = <<>>
  /\ run = 1
  /\ pc = "start"
  /\ lastEnd = "none"
  /\ nextId = 1
  /\ createdEarlier = {}
  /\ RunLocalsInit

\* syncCommand from the fetch to the confirmation prompt.  dry is
\* options.dryRun.  A TypeError of a grouping call ends the run (process.exit).
\* The runs are those in which promptForJiraAssignment returns no assignment.
StartRun(dry) ==
  /\ pc = "start"
  /\ dryRun' = dry
  /\ alreadySyncedEntries' =
       filterUnsyncedEntries(ledger, ParseAll(fetched)).synced
  /\ unsyncedEntries' =
       filterUnsyncedEntries(ledger, ParseAll(fetched)).unsynced
  /\ groupedJiraEntries' =
       groupEntriesByIssueKeyAndDate(
         PendingJiraEntries(ParseAll(fetched), unsyncedEntries'))
  /\ failure' =
       IF Len(fetched) = 0 THEN "none"
       ELSE IF groupEntriesByDescription(
                 SelectSeq(unsyncedEntries', LAMBDA e : ~e.hasJiraIssue)).threw
       THEN "TypeError"
       ELSE IF groupEntriesByDescription(
                 SelectSeq(unsyncedEntries', LAMBDA e : ~e.hasTags)).threw
       THEN "TypeError"
       ELSE "none"
  /\ summaryTotals' =
       IF Len(fetched) = 0 \/ failure' # "none" THEN NoTotals
       ELSE SummaryTotals(
              groupedJiraEntries',
              groupEntriesByDescription(
                SelectSeq(unsyncedEntries', LAMBDA e : ~e.hasJiraIssue)).groups,
              groupEntriesByDescription(
                SelectSeq(unsyncedEntries', LAMBDA e : ~e.hasTags)).groups,
              groupSyncedEntriesByIssue(alreadySyncedEntries'))
  /\ pc' =
       IF Len(fetched) = 0 THEN "done"
       ELSE IF failure' # "none" THEN "failed"
       ELSE AfterSummary(Len(SummaryJiraWorkLogs(groupedJiraEntries')), dry)
  /\ UNCHANGED <<fetched, useJira, ledger, run, lastEnd, allParsedEntries,
                 workLogs, results, loopAt, index, nextId, calls, inFlight,
                 created, marked, createdEarlier, confirmed>>

\* syncCommand from the answer to the confirmation prompt to the call of
\* batchCreateWorkLogs.  answer is the user's answer; in Timetracker mode
\* bulkAnswer is the answer of the bulk issue lookup of prefetchIssueIds and
\* tagAnswer that of the tag listing.  The client and its caches are new in
\* every run.
Confirm(answer, bulkAnswer, tagAnswer) ==
  /\ pc = "confirm"
  /\ confirmed' = answer
  /\ allParsedEntries' =
       IF answer /\ ~useJira
       THEN ConcatEntries(SummaryJiraWorkLogs(groupedJiraEntries))
       ELSE <<>>
  /\ workLogs' =
       IF ~answer THEN <<>>
       ELSE IF useJira
       THEN [n \in 1..Len(groupedJiraEntries) |->
               formatJiraWorkLogWithBreakdown(groupedJiraEntries[n].issueKey,
                   groupedJiraEntries[n].entries, groupedJiraEntries[n].date, n)]
       ELSE ConvertAll(
              prefetchIssueIds(NoIssueIds, allParsedEntries', bulkAnswer).cache,
              NoTagsCache, allParsedEntries', tagAnswer, <<>>).workLogs
  /\ failure' =
       IF answer /\ ~useJira
          /\ ConvertAll(
               prefetchIssueIds(NoIssueIds, allParsedEntries', bulkAnswer).cache,
               NoTagsCache, allParsedEntries', tagAnswer, <<>>).threw
       THEN "Failed to fetch worklog tags"
       ELSE "none"
  /\ pc' =
       IF ~answer THEN "done"
       ELSE IF failure' # "none" THEN "failed"
       ELSE "batch"
  /\ UNCHANGED <<fetched, useJira, ledger, run, lastEnd, alreadySyncedEntries,
                 unsyncedEntries, groupedJiraEntries, results, loopAt, index,
                 nextId, calls, inFlight, created, marked, createdEarlier,
                 dryRun, summaryTotals>>

\* await this.createWorkLog(workLog): the request is sent
CreateStart ==
  /\ pc = "batch"
  /\ loopAt <= Len(workLogs)
  /\ pc' = "inflight"
  /\ calls' = Append(calls, workLogs[loopAt].src)
  /\ inFlight' = inFlight \cup {workLogs[loopAt].src}
  /\ UNCHANGED <<fetched, useJira, ledger, run, lastEnd, alreadySyncedEntries,
                 unsyncedEntries, groupedJiraEntries, allParsedEntries, workLogs,
                 results, loopAt, index, nextId, created, marked, createdEarlier,
                 dryRun, confirmed, failure, summaryTotals>>

\* the create answers with the id of the new work log
CreateOk ==
  /\ pc = "inflight"
  /\ pc' = "batch"
  /\ results' = RecordSuccess(results, workLogs[loopAt], nextId)
  /\ created' = Append(created, [src |-> workLogs[loopAt].src, workLogId |-> nextId])
  /\ nextId' = nextId + 1
  /\ inFlight' = inFlight \ {workLogs[loopAt].src}
  /\ loopAt' = loopAt + 1
  /\ UNCHANGED <<fetched, useJira, ledger, run, lastEnd, alreadySyncedEntries,
                 unsyncedEntries, groupedJiraEntries, allParsedEntries, workLogs,
                 index, calls, marked, createdEarlier,
                 dryRun, confirmed, failure, summaryTotals>>

\* the create throws
CreateFail ==
  /\ pc = "inflight"
  /\ pc' = "batch"
  /\ results' = RecordFailure(results, workLogs[loopAt], "Failed to create work log")
  /\ inFlight' = inFlight \ {workLogs[loopAt].src}
  /\ loopAt' = AfterFailure(loopAt, Len(workLogs))
  /\ UNCHANGED <<fetched, useJira, ledger, run, lastEnd, alreadySyncedEntries,
                 unsyncedEntries, groupedJiraEntries, allParsedEntries, workLogs,
                 index, nextId, calls, created, marked, createdEarlier,
                 dryRun, confirmed, failure, summaryTotals>>

\* return results
BatchReturn ==
  /\ pc = "batch"
  /\ loopAt > Len(workLogs)
  /\ pc' = "commit"
  /\ index' = 1
  /\ UNCHANGED <<fetched, useJira, ledger, run, lastEnd, alreadySyncedEntries,
                 unsyncedEntries, groupedJiraEntries, allParsedEntries, workLogs,
                 results, loopAt, nextId, calls, inFlight, created, marked,
                 createdEarlier,
                 dryRun, confirmed, failure, summaryTotals>>

\* the entries and the issue key one iteration of results.successful.forEach
\* hands to markEntriesAsSynced; no entries when the iteration marks nothing
EntriesToMark(jira, grouped, all, item, at) ==
  IF jira
  THEN LET groupKey == findGroupByWorkLog(grouped, item.workLog)
           n == IndexOfKey(grouped, groupKey)
       IN  IF groupKey # NoValue /\ n # 0
           THEN [entries |-> grouped[n].entries, issueKey |-> item.workLog.issueKey]
           ELSE [entries |-> <<>>, issueKey |-> NoValue]
  ELSE IF at <= Len(all)
       THEN [entries |-> <<all[at]>>,
             issueKey |-> IF all[at].issueKey # NoValue THEN all[at].issueKey
                          ELSE NoIssue]
       ELSE [entries |-> <<>>, issueKey |-> NoValue]

\* one iteration of results.successful.forEach
CommitStep ==
  /\ pc = "commit"
  /\ index <= Len(results.successful)
  /\ LET item == results.successful[index]
         m == EntriesToMark(useJira, groupedJiraEntries, allParsedEntries, item, index)
     IN  /\ ledger' = markEntriesAsSynced(ledger, m.entries, m.issueKey, item.workLogId)
         /\ marked' = marked \cup
              {[id |-> e, workLogId |-> item.workLogId] : e \in EntryIds(m.entries)}
  /\ index' = index + 1
  /\ UNCHANGED <<fetched, useJira, run, pc, lastEnd, alreadySyncedEntries,
                 unsyncedEntries, groupedJiraEntries, allParsedEntries, workLogs,
                 results, loopAt, nextId, calls, inFlight, created, createdEarlier,
                 dryRun, confirmed, failure, summaryTotals>>

\* syncCommand returns
Finish ==
  /\ pc = "commit"
  /\ index > Len(results.successful)
  /\ pc' = "done"
  /\ UNCHANGED <<fetched, useJira, ledger, run, lastEnd, alreadySyncedEntries,
                 unsyncedEntries, groupedJiraEntries, allParsedEntries, workLogs,
                 results, loopAt, index, nextId, calls, inFlight, created, marked,
                 createdEarlier,
                 dryRun, confirmed, failure, summaryTotals>>

\* the process is interrupted while the batch is submitted or committed
Crash ==
  /\ pc \in {"batch", "inflight", "commit"}
  /\ pc' = "crashed"
  /\ UNCHANGED <<fetched, useJira, ledger, run, lastEnd, alreadySyncedEntries,
                 unsyncedEntries, groupedJiraEntries, allParsedEntries, workLogs,
                 results, loopAt, index, nextId, calls, inFlight, created, marked,
                 createdEarlier,
                 dryRun, confirmed, failure, summaryTotals>>

\* the command is run again: only the ledger and the downstream system persist
NextRun ==
  /\ pc \in {"done", "failed", "crashed"}
  /\ run < MaxRuns
  /\ run' = run + 1
  /\ pc' = "start"
  /\ lastEnd' = pc
  /\ createdEarlier' = createdEarlier \cup
       UNION {workLogs[created[n].src].of : n \in 1..Len(created)}
  /\ alreadySyncedEntries' = <<>>
  /\ unsyncedEntries' = <<>>
  /\ groupedJiraEntries' = <<>>
  /\ allParsedEntries' = <<>>
  /\ workLogs' = <<>>
  /\ results' = NoResults
  /\ loopAt' = 1
  /\ index' = 1
  /\ calls' = <<>>
  /\ inFlight' = {}
  /\ created' = <<>>
  /\ marked' = {}
  /\ dryRun' = FALSE
  /\ confirmed' = FALSE
  /\ failure' = "none"
  /\ summaryTotals' = NoTotals
  /\ UNCHANGED <<fetched, useJira, ledger, nextId>>

(***************************************************************************)
(* SpecClient: one TimetrackerClient used for several batches, each as     *)
(* syncCommand uses it: prefetchIssueIds on the entries, then              *)
(* convertParsedEntryToWorklog on one entry after the other.               *)
(***************************************************************************)
ClientTemplates ==
  { Raw(TextAB1, 1, 9, 600, TagList(OneTag)),
    Raw(TextAB2, 1, 9, 600, TagList(<<>>)),
    Raw(TextPlain, 1, 8, 600, TagList(OneTag)) }

\* the entry lists handed to the client
ClientEntryLists ==
  {ParseAll(r) : r \in RawLists(ClientTemplates, MaxClientEntries)}

\* the answers of the bulk issue lookup: an error, or the ids Jira knows
ClientBulkAnswers ==
  {[threw |-> TRUE, known |-> {}]}
    \cup {[threw |-> FALSE, known |-> K] :
            K \in SUBSET {extractJiraIssueKey(TextAB1), extractJiraIssueKey(TextAB2)}}

ClientIdle ==
  /\ issueKeyToIdCache = NoIssueIds
  /\ worklogTagsCache = NoTagsCache
  /\ cEntries = <<>>
  /\ cWorkLogs = <<>>
  /\ cRequests = <<>>
  /\ cCacheBefore = NoIssueIds
  /\ cLookup = "none"
  /\ cPc = "idle"
  /\ cRound = 0

\* new TimetrackerClient()
ClientInit ==
  /\ issueKeyToIdCache = NoIssueIds
  /\ worklogTagsCache = NoTagsCache
  /\ cEntries = <<>>
  /\ cWorkLogs = <<>>
  /\ cRequests = <<>>
  /\ cCacheBefore = NoIssueIds
  /\ cLookup = "none"
  /\ cPc = "ready"
  /\ cRound = 1

\* await client.prefetchIssueIds(allParsedEntries).  cRequests keeps, for each
\* request sent to Jira, its keys and the keys that were cached then.
ClientPrefetch(entries, answer) ==
  /\ cPc = "ready"
  /\ cEntries' = entries
  /\ cCacheBefore' = issueKeyToIdCache
  /\ issueKeyToIdCache' = prefetchIssueIds(issueKeyToIdCache, entries, answer).cache
  /\ cRequests' = cRequests \o
       [n \in 1..Len(prefetchIssueIds(issueKeyToIdCache, entries, answer).requested) |->
          [ keys |-> prefetchIssueIds(issueKeyToIdCache, entries, answer).requested[n],
            cached |-> DOMAIN issueKeyToIdCache ]]
  /\ cLookup' =
       IF prefetchIssueIds(issueKeyToIdCache, entries, answer).requested = <<>>
       THEN "none"
       ELSE IF prefetchIssueIds(issueKeyToIdCache, entries, answer).warned
       THEN "threw"
       ELSE "answered"
  /\ cWorkLogs' = <<>>
  /\ cPc' = "building"
  /\ UNCHANGED <<worklogTagsCache, cRound>>

\* await client.convertParsedEntryToWorklog(entry) for the next entry; the
\* exception of the tag listing leaves the loop
ClientConvert(answer) ==
  /\ cPc = "building"
  /\ Len(cWorkLogs) < Len(cEntries)
  /\ LET c == convertParsedEntryToWorklog(issueKeyToIdCache, worklogTagsCache,
                cEntries[Len(cWorkLogs) + 1], answer, Len(cWorkLogs) + 1)
     IN  /\ worklogTagsCache' = c.cache
         /\ cWorkLogs' = IF c.threw THEN cWorkLogs ELSE Append(cWorkLogs, c.workLog)
         /\ cPc' = IF c.threw THEN "threw" ELSE "building"
  /\ UNCHANGED <<issueKeyToIdCache, cEntries, cRequests, cCacheBefore, cLookup,
                 cRound>>

\* every entry has its payload: the payloads go to batchCreateWorkLogs
ClientSubmit ==
  /\ cPc = "building"
  /\ Len(cWorkLogs) = Len(cEntries)
  /\ cPc' = "built"
  /\ UNCHANGED <<issueKeyToIdCache, worklogTagsCache, cEntries, cWorkLogs,
                 cRequests, cCacheBefore, cLookup, cRound>>

\* the same client is used for another batch
ClientNextBatch ==
  /\ cPc = "built"
  /\ cRound < MaxRounds
  /\ cRound' = cRound + 1
  /\ cPc' = "ready"
  /\ cEntries' = <<>>
  /\ cWorkLogs' = <<>>
  /\ UNCHANGED <<issueKeyToIdCache, worklogTagsCache, cRequests, cCacheBefore,
                 cLookup>>

(***************************************************************************)
(* SpecMerge: the interactive assignment of syncCommand.  The user assigns *)
(* a group of entries without an issue key to an issue; the groups made of *)
(* it are merged into the pending groups and the summary is built again.   *)
(***************************************************************************)
MergeTemplates ==
  { Raw(TextAB1, 1, 9, 600, TagList(OneTag)),
    Raw(TextAB1, 2, 9, 900, TagList(OneTag)),
    Raw(TextPlain, 1, 8, 600, TagList(OneTag)),
    Raw(TextPlain, 2, 9, 900, TagList(OneTag)) }

\* the issue keys the user may answer
AssignableKeys == {extractJiraIssueKey(TextAB1), extractJiraIssueKey(TextAB2)}

\* Object.assign(target, source) on objects used as maps: a key of the source
\* that the target has gets the value of the source, a new key is added
RECURSIVE ObjectAssign(_, _)
ObjectAssign(target, source) ==
  IF source = <<>> THEN target
  ELSE LET at == IndexOfKey(target, Head(source).key) IN
       ObjectAssign(IF at # 0 THEN [target EXCEPT ![at] = Head(source)]
                    ELSE Append(target, Head(source)),
                    Tail(source))

\* convertUnassignedToJiraEntries: the entries of every assigned group,
\* grouped by date under the assigned issue key
RECURSIVE convertUnassignedToJiraEntries(_)
convertUnassignedToJiraEntries(assignments) ==
  IF assignments = <<>> THEN <<>>
  ELSE ObjectAssign(
         convertUnassignedToJiraEntries(
           SubSeq(assignments, 1, Len(assignments) - 1)),
         groupEntriesByDate(assignments[Len(assignments)].group.entries,
                            assignments[Len(assignments)].issueKey))

\* unsyncedEntries.filter((e) => !e.hasJiraIssue), grouped by description
GroupedNonJiraEntries(parsedEntries) ==
  groupEntriesByDescription(
    SelectSeq(parsedEntries, LAMBDA e : ~e.hasJiraIssue)).groups

MergeIdle ==
  /\ mParsed = <<>>
  /\ mAssignments = <<>>
  /\ mPending = <<>>
  /\ mAssigned = <<>>
  /\ mMerged = <<>>
  /\ mWorkLogs = <<>>
  /\ mPc = "idle"

\* the state of syncCommand when promptForJiraAssignment has returned one
\* assignment: a group without issue key and the issue key given to it
MergeInit ==
  /\ mParsed \in {ParseAll(r) : r \in RawLists(MergeTemplates, MaxMergeEntries)}
  /\ mAssignments \in
       { <<[issueKey |-> key, group |-> GroupedNonJiraEntries(mParsed)[n]]>> :
           key \in AssignableKeys,
           n \in 1..Len(GroupedNonJiraEntries(mParsed)) }
  /\ mPending = groupEntriesByIssueKeyAndDate(mParsed)
  /\ mAssigned = <<>>
  /\ mMerged = <<>>
  /\ mWorkLogs = <<>>
  /\ mPc = "assigned"

\* Object.assign(groupedJiraEntries, assignedJiraEntries), then
\* summary = prepareSummaryData(groupedJiraEntries, [], groupedAlreadySynced):
\* the groups of synced entries are passed where an array is expected, and
\* entriesWithoutTags.map throws a TypeError unless they are an array
MergeAssigned(syncedGroupsAreArray) ==
  /\ mPc = "assigned"
  /\ mAssigned' = convertUnassignedToJiraEntries(mAssignments)
  /\ mMerged' = ObjectAssign(mPending, mAssigned')
  /\ mWorkLogs' =
       IF syncedGroupsAreArray THEN SummaryJiraWorkLogs(mMerged') ELSE <<>>
  /\ mPc' = IF syncedGroupsAreArray THEN "merged" ELSE "threw"
  /\ UNCHANGED <<mParsed, mAssignments, mPending>>

Init == DateIdle /\ GroupIdle /\ SyncInit /\ ClientIdle /\ MergeIdle

Next ==
  \/ (\E dry \in BOOLEAN : StartRun(dry)) /\ UNCHANGED <<dvars, gvars, cvars, mvars>>
  \/ (\E answer \in BOOLEAN, bulkAnswer \in BulkAnswers, tagAnswer \in TagAnswers :
        Confirm(answer, bulkAnswer, tagAnswer))
       /\ UNCHANGED <<dvars, gvars, cvars, mvars>>
  \/ CreateStart /\ UNCHANGED <<dvars, gvars, cvars, mvars>>
  \/ CreateOk /\ UNCHANGED <<dvars, gvars, cvars, mvars>>
  \/ CreateFail /\ UNCHANGED <<dvars, gvars, cvars, mvars>>
  \/ BatchReturn /\ UNCHANGED <<dvars, gvars, cvars, mvars>>
  \/ CommitStep /\ UNCHANGED <<dvars, gvars, cvars, mvars>>
  \/ Finish /\ UNCHANGED <<dvars, gvars, cvars, mvars>>
  \/ Crash /\ UNCHANGED <<dvars, gvars, cvars, mvars>>
  \/ NextRun /\ UNCHANGED <<dvars, gvars, cvars, mvars>>

Spec == Init /\ [][Next]_vars

DateNext == ResolveDate /\ UNCHANGED <<gvars, svars, cvars, mvars>>

InitDate == DateInit /\ GroupIdle /\ SyncIdle /\ ClientIdle /\ MergeIdle

SpecDate == InitDate /\ [][DateNext]_vars

GroupNext ==
  \/ GroupByIssueKeyAndDate /\ UNCHANGED <<dvars, svars, cvars, mvars>>
  \/ GroupByDescription /\ UNCHANGED <<dvars, svars, cvars, mvars>>

InitGroup == DateIdle /\ GroupInit /\ SyncIdle /\ ClientIdle /\ MergeIdle

SpecGroup == InitGroup /\ [][GroupNext]_vars

ClientNext ==
  \/ (\E entries \in ClientEntryLists, answer \in ClientBulkAnswers :
        ClientPrefetch(entries, answer)) /\ UNCHANGED <<dvars, gvars, svars, mvars>>
  \/ (\E answer \in TagAnswers : ClientConvert(answer))
       /\ UNCHANGED <<dvars, gvars, svars, mvars>>
  \/ ClientSubmit /\ UNCHANGED <<dvars, gvars, svars, mvars>>
  \/ ClientNextBatch /\ UNCHANGED <<dvars, gvars, svars, mvars>>

InitClient == DateIdle /\ GroupIdle /\ SyncIdle /\ ClientInit /\ MergeIdle

SpecClient == InitClient /\ [][ClientNext]_vars

MergeNext ==
  (\E syncedGroupsAreArray \in BOOLEAN : MergeAssigned(syncedGroupsAreArray))
    /\ UNCHANGED <<dvars, gvars, svars, cvars>>

InitMerge == DateIdle /\ GroupIdle /\ SyncIdle /\ ClientIdle /\ MergeInit

SpecMerge == InitMerge /\ [][MergeNext]_vars

(***************************************************************************)
(* Claims about the sync runs (Spec).                                      *)
(***************************************************************************)
\* the entries a payload was built from, by id
PayloadEntryIds(src) == workLogs[src].of

\* the ids of the entries whose create succeeded in this batch
CreatedEntryIds == UNION {PayloadEntryIds(created[n].src) : n \in 1..Len(created)}

\* the normalized entry with the given id
EntryById(id) == ParseAll(fetched)[id]

\* C1: every (entry, work-log id) pair handed to markEntriesAsSynced belongs to
\* an entry of a payload whose own create succeeded in this batch; an entry
\* whose payload failed is never marked.
C1_OnlyCreatedEntriesAreMarked ==
  \A m \in marked : m.id \in CreatedEntryIds

\* C2: when syncCommand has finished a batch, every entry of every payload
\* whose create succeeded has been handed to markEntriesAsSynced with that
\* payload's downstream work-log id.
C2_EveryCreatedEntryIsMarked ==
  pc = "done" =>
    \A n \in 1..Len(created) :
      \A id \in PayloadEntryIds(created[n].src) :
        [id |-> id, workLogId |-> created[n].workLogId] \in marked

\* C3: in a run over the same entries that follows a run which finished and
\* committed its results, every entry created downstream in the earlier run is
\* classified as synced and no create is issued for it again.
C3_SecondRunCreatesNothingAgain ==
  (lastEnd = "done" /\ pc \notin {"start", "failed"}) =>
    /\ createdEarlier \subseteq EntryIds(alreadySyncedEntries)
    /\ \A n \in 1..Len(calls) : PayloadEntryIds(calls[n]) \cap createdEarlier = {}

\* C4 as claimed: in the run that follows an interrupted run, no entry whose
\* downstream create had succeeded before the interruption is submitted again.
C4_NoCreatedEntryResubmittedAfterCrash ==
  lastEnd = "crashed" =>
    \A n \in 1..Len(calls) : PayloadEntryIds(calls[n]) \cap createdEarlier = {}

\* C4 as amended: in the run that follows an interrupted run, no entry whose
\* ledger record had been written before the interruption is submitted again
\* (the ledger is written only after the whole batch has returned).
C4_NoRecordedEntryResubmittedAfterCrash ==
  (lastEnd = "crashed" /\ pc \in {"batch", "inflight"}) =>
    \A n \in 1..Len(calls) :
      \A id \in PayloadEntryIds(calls[n]) : ~IsSynced(ledger, EntryById(id))

\* a run after an interruption that left records in the ledger skips the
\* recorded entries and submits another one
C4_Witness ==
  /\ lastEnd = "crashed"
  /\ pc = "inflight"
  /\ ledger # <<>>
  /\ alreadySyncedEntries # <<>>
  /\ Len(calls) > 0

\* the positions of the result sequence that hold the payload src
PositionsOf(items, src) == {k \in 1..Len(items) : items[k].workLog.src = src}

\* the create of payload src was issued and threw
CreateThrew(src) ==
  /\ \E n \in 1..Len(calls) : calls[n] = src
  /\ \A n \in 1..Len(created) : created[n].src # src

\* C5: batchCreateWorkLogs returns a result in which every input payload is in
\* exactly one of successful and failed: in successful, with the downstream
\* id, iff its create succeeded, and in failed, with the error message, iff
\* its create threw.
C5_BatchResultPartitionsPayloads ==
  pc \in {"commit", "done"} =>
    /\ Len(results.successful) + Len(results.failed) = Len(workLogs)
    /\ \A src \in 1..Len(workLogs) :
         /\ Cardinality(PositionsOf(results.successful, src))
              + Cardinality(PositionsOf(results.failed, src)) = 1
         /\ \A k \in PositionsOf(results.successful, src) :
              /\ results.successful[k].workLog = workLogs[src]
              /\ [src |-> src, workLogId |-> results.successful[k].workLogId]
                   \in {created[n] : n \in 1..Len(created)}
         /\ \A k \in PositionsOf(results.failed, src) :
              /\ results.failed[k].workLog = workLogs[src]
              /\ results.failed[k].error = "Failed to create work log"
         /\ (PositionsOf(results.failed, src) # {}) = CreateThrew(src)

\* a 3-item batch whose item 2 failed: items 1 and 3 are successful
C5_Witness ==
  /\ pc = "commit"
  /\ Len(workLogs) = 3
  /\ PositionsOf(results.failed, 2) # {}
  /\ PositionsOf(results.successful, 1) # {}
  /\ PositionsOf(results.successful, 3) # {}

\* C6: batchCreateWorkLogs issues the creates one per payload in list order,
\* never two in flight at once and never one twice, and once it has returned
\* a create has been issued for every payload, whichever creates failed.
C6_OneCreatePerPayloadInOrder ==
  /\ calls = [k \in 1..Len(calls) |-> k]
  /\ Len(calls) <= Len(workLogs)
  /\ Cardinality(inFlight) <= 1
  /\ pc = "inflight" => inFlight = {calls[Len(calls)]}
  /\ pc \in {"batch", "commit", "done"} => inFlight = {}
  /\ pc \in {"commit", "done"} => Len(calls) = Len(workLogs)

\* a batch of three whose first create failed has issued all three creates
C6_Witness ==
  /\ pc = "commit"
  /\ Len(workLogs) = 3
  /\ PositionsOf(results.failed, 1) # {}
  /\ calls = <<1, 2, 3>>

(***************************************************************************)
(* Claims about parseDateInput (SpecDate).                                 *)
(***************************************************************************)
\* the ways of giving the day count n: as a number, or as digits with
\* optional whitespace on either side
DayCountForms ==
  {<<n, NumberInput(n)>> : n \in 0..MaxDaysAgo}
    \cup {<<n, StringInput(PaddedDayCount(n, l, r))>> :
            n \in 0..MaxDaysAgo, l \in 0..1, r \in 0..1}

\* C7: for every day count n in 0..365, given as a number or as a digit string
\* with optional surrounding whitespace, parseDateInput returns the current
\* date minus n days at 00:00:00.
C7_DayCountResolvesToStartOfDay ==
  dPc = "done" =>
    \A form \in DayCountForms :
      form[2] = dInput =>
        dResult = [tag |-> "daysAgo",
                   date |-> [day |-> dNow.day - form[1], secs |-> 0]]

\* the largest day count, padded, resolved at a time that is not midnight
C7_Witness ==
  /\ dPc = "done"
  /\ dInput = StringInput(PaddedDayCount(MaxDaysAgo, 1, 1))
  /\ dNow.secs # 0
  /\ dResult.tag = "daysAgo"

InputIsEmpty(input) ==
  \/ input.kind \in {"null", "undefined"}
  \/ input.kind = "string" /\ input.text = <<>>

\* the trimmed text of an input that is not empty
TrimmedText(input) ==
  Trim(IF input.kind = "number" THEN IntToString(input.value) ELSE input.text)

IsMinusDigits(t) == Len(t) >= 2 /\ t[1] = "-" /\ AllIn(Tail(t), Digits)

IsAllDigits(t) == Len(t) >= 1 /\ AllIn(t, Digits)

\* C8: parseDateInput fails in exactly three cases, each with its own error:
\* empty/null/undefined input, a trimmed '-' followed by digits, and an
\* all-digit text above 365; every other input that is not all digits is
\* handed to the date parser and nothing is thrown.
C8_ExactlyThreeFailures ==
  dPc = "done" =>
    LET empty == InputIsEmpty(dInput)
        t == TrimmedText(dInput)
        negative == ~empty /\ IsMinusDigits(t)
        tooLarge == ~empty /\ IsAllDigits(t) /\ ParseDigits(t) > MaxDaysAgo
    IN  /\ (dResult = Thrown("Date input is required")) = empty
        /\ (dResult = Thrown("Must be a non-negative integer")) = negative
        /\ (dResult = Thrown("Maximum is 365 days")) = tooLarge
        /\ (dResult.tag = "throw") = (empty \/ negative \/ tooLarge)
        /\ (~empty /\ ~negative /\ ~IsAllDigits(t)) =>
             dResult = [tag |-> "dayjs", text |-> t]

\* a negative day count fails with the non-negative-integer error
C8_Witness ==
  /\ dPc = "done"
  /\ dInput = StringInput(<<"-", "7">>)
  /\ dResult = Thrown("Must be a non-negative integer")

(***************************************************************************)
(* Claims about the grouping engine (SpecGroup).                           *)
(***************************************************************************)
\* the entries that take part in the grouping mode
Participants(mode, entries) ==
  IF mode = "issueDate"
  THEN SelectSeq(entries, LAMBDA e : e.issueKey # NoValue)
  ELSE entries

RECURSIVE SumTotals(_)
SumTotals(groups) ==
  IF groups = <<>> THEN 0 ELSE Head(groups).totalSeconds + SumTotals(Tail(groups))

\* how often the entry with the id is held by the groups
Occurrences(groups, id) ==
  Cardinality({ <<n, m>> \in (1..Len(groups)) \X (1..MaxGroupInput + 1) :
                  m <= Len(groups[n].entries) /\ groups[n].entries[m].id = id })

\* the groups hold every participating entry once, and the totals are the sums
GroupsPartition(out, entries) ==
  /\ \A id \in EntryIds(entries) : Occurrences(out.groups, id) = 1
  /\ \A n \in 1..Len(out.groups) :
       /\ out.groups[n].totalSeconds = SumDurations(out.groups[n].entries)
       /\ EntryIds(out.groups[n].entries) \subseteq EntryIds(entries)
  /\ SumTotals(out.groups) = SumDurations(entries)

\* C9: in both grouping modes every participating entry is placed in exactly
\* one group, each group's totalSeconds is the sum of the durations of its
\* entries, and the totals add up to the durations of the participants.
C9_GroupingPartitionsAndSums ==
  gPc = "done" =>
    /\ ~gOut.threw
    /\ GroupsPartition(gOut, Participants(gMode, gIn))

\* what a grouping result says, whatever the order of groups and members
GroupSummary(out) ==
  [ threw |-> out.threw,
    groups |-> { [ key |-> out.groups[n].key,
                   members |-> EntryIds(out.groups[n].entries),
                   totalSeconds |-> out.groups[n].totalSeconds ]
                 : n \in 1..Len(out.groups) } ]

\* C10: grouping a permutation of the entries gives the same group keys and,
\* for each key, the same members and the same totalSeconds.
C10_GroupingIsOrderIndependent ==
  gPc = "done" => GroupSummary(gOut) = GroupSummary(gOutPerm)

\* a reordered list that has a group of two entries
C10_Witness ==
  /\ gPc = "done"
  /\ gPerm # gIn
  /\ \E n \in 1..Len(gOut.groups) : Len(gOut.groups[n].entries) >= 2

\* issueKey + "_" + calendar-date(startedAt)
IssueDateKey(entry) == <<entry.issueKey, DateOf(entry.startedAt)>>

\* C11: in issue-and-date grouping the entries sharing issueKey_date form one
\* group, the entries of a group are in ascending order of start with entries
\* of equal start in input order, and the start of the work log built from a
\* group (its first entry) is the earliest start of the group.
C11_IssueDateGroupsSortedByStart ==
  (gPc = "done" /\ gMode = "issueDate") =>
    LET groups == gOut.groups IN
    /\ \A id \in EntryIds(Participants(gMode, gIn)) : Occurrences(groups, id) = 1
    /\ \A a, b \in 1..Len(groups) : groups[a].key = groups[b].key => a = b
    /\ \A n \in 1..Len(groups) :
         LET entries == groups[n].entries IN
         /\ \A m \in 1..Len(entries) : IssueDateKey(entries[m]) = groups[n].key
         /\ \A a, b \in 1..Len(entries) :
              a < b =>
                \/ Instant(entries[a].startedAt) < Instant(entries[b].startedAt)
                \/ /\ Instant(entries[a].startedAt) = Instant(entries[b].startedAt)
                   /\ entries[a].id < entries[b].id
         /\ \A m \in 1..Len(entries) :
              Instant(SummaryJiraWorkLogs(groups)[n].startedAt)
                <= Instant(entries[m].startedAt)

\* three entries of one issue and date with durations 600, 900, 1800, given
\* out of order, form one group of 3300 seconds ordered by start
C11_Witness ==
  /\ gPc = "done"
  /\ gMode = "issueDate"
  /\ [m \in 1..Len(gIn) |-> gIn[m].durationSeconds] = <<600, 900, 1800>>
  /\ Len(gOut.groups) = 1
  /\ gOut.groups[1].totalSeconds = 3300
  /\ [m \in 1..3 |-> gOut.groups[1].entries[m].durationSeconds] = <<900, 600, 1800>>

(***************************************************************************)
(* Further claims about the sync runs (Spec).                              *)
(***************************************************************************)
\* the ids of a list of entries, in list order
IdsInOrder(entries) == [n \in 1..Len(entries) |-> entries[n].id]

\* strictly ascending: the input order, the id of an entry being its position
\* in the fetched list
Ascending(ids) == \A a, b \in 1..Len(ids) : a < b => ids[a] < ids[b]

\* C12: the call of filterUnsyncedEntries made by a run puts every fetched
\* entry in exactly one of synced and unsynced, in synced iff the ledger holds
\* a record for its identity token, keeps the input order within each output,
\* and leaves the ledger as it was.
C12_FilterPartitionsByLedger ==
  [][ (pc = "start" /\ pc' # "start") =>
        /\ ledger' = ledger
        /\ \A id \in 1..Len(fetched) :
             /\ (id \in EntryIds(alreadySyncedEntries'))
                  = IsSynced(ledger, EntryById(id))
             /\ (id \in EntryIds(unsyncedEntries'))
                  = ~IsSynced(ledger, EntryById(id))
        /\ EntryIds(alreadySyncedEntries') \cup EntryIds(unsyncedEntries')
             = 1..Len(fetched)
        /\ Len(alreadySyncedEntries') + Len(unsyncedEntries') = Len(fetched)
        /\ Ascending(IdsInOrder(alreadySyncedEntries'))
        /\ Ascending(IdsInOrder(unsyncedEntries'))
        /\ \A n \in 1..Len(alreadySyncedEntries') :
             alreadySyncedEntries'[n] = EntryById(alreadySyncedEntries'[n].id)
        /\ \A n \in 1..Len(unsyncedEntries') :
             unsyncedEntries'[n] = EntryById(unsyncedEntries'[n].id)
    ]_vars

\* a later run whose filter found a recorded entry between two unrecorded ones
C12_Witness ==
  /\ run = 2
  /\ pc = "confirm"
  /\ ledger # <<>>
  /\ IdsInOrder(alreadySyncedEntries) = <<2>>
  /\ IdsInOrder(unsyncedEntries) = <<1, 3>>

\* the normalized entries a run has computed
NormalizedEntries == alreadySyncedEntries \o unsyncedEntries

\* C13: every entry normalized by parseTimeEntry has durationSeconds equal to
\* the raw duration when that is positive and 0 otherwise, hasJiraIssue true
\* iff issueKey is not null, hasTags true iff the raw entry carries a
\* non-empty tag list, and a sequence as tags, empty when the raw entry has
\* no tags; every raw entry is normalized.
C13_NormalizedEntryInvariants ==
  pc \notin {"start", "idle"} =>
    /\ EntryIds(NormalizedEntries) = 1..Len(fetched)
    /\ \A n \in 1..Len(NormalizedEntries) :
         LET e == NormalizedEntries[n]
             raw == fetched[e.id]
         IN  /\ e.durationSeconds >= 0
             /\ e.durationSeconds = IF raw.duration >= 0 THEN raw.duration ELSE 0
             /\ e.hasJiraIssue = (e.issueKey # NoValue)
             /\ e.hasTags = (raw.tags.isArray /\ raw.tags.names # <<>>)
             /\ e.tags \in Seq({OneTag})
             /\ (~raw.tags.isArray \/ raw.tags.names = <<>>) => e.tags = <<>>
             /\ raw.tags.isArray => e.tags = raw.tags.names

\* a running timer (duration -1, no description, tags null) was normalized
\* next to a tagged entry with an issue key
C13_Witness ==
  /\ pc = "confirm"
  /\ \E n \in 1..Len(NormalizedEntries) :
       /\ fetched[NormalizedEntries[n].id].duration = 0 - 1
       /\ fetched[NormalizedEntries[n].id].tags = NullTags
       /\ NormalizedEntries[n].durationSeconds = 0
       /\ ~NormalizedEntries[n].hasTags
  /\ \E n \in 1..Len(NormalizedEntries) :
       NormalizedEntries[n].hasTags /\ NormalizedEntries[n].hasJiraIssue

\* C15: a failure of the tag listing while the payloads of a Timetracker run
\* are built does not abort the run: no run ends with the error of the tag
\* listing, the run goes on to submit its payloads.
C15_TagFailureDoesNotAbortRun ==
  ~(pc = "failed" /\ failure = "Failed to fetch worklog tags")

\* the ids of the entries of the payloads handed to batchCreateWorkLogs
SubmittedEntryIds == UNION {workLogs[n].of : n \in 1..Len(workLogs)}

\* C16: an entry without tags is never part of a payload handed to
\* batchCreateWorkLogs and is never handed to markEntriesAsSynced, whether or
\* not its description carries an issue key.
C16_UntaggedEntriesAreIgnored ==
  /\ \A id \in SubmittedEntryIds : EntryById(id).hasTags
  /\ \A m \in marked : EntryById(m.id).hasTags

\* C17: a step issues a create or writes the ledger only in a run that is not
\* a dry run, found a work log to create and was confirmed by the user; in a
\* run with dry-run set, with the confirmation declined or not yet given,
\* with no fetched entry or with no work log to create, no create has been
\* issued, nothing has been marked and every step leaves the ledger as it is.
C17_CreatesOnlyAfterConfirmation ==
  [][ /\ (Len(calls') > Len(calls) \/ ledger' # ledger) =>
           (confirmed /\ ~dryRun /\ Len(fetched) > 0 /\ Len(workLogs) > 0)
      /\ (\/ dryRun'
          \/ ~confirmed'
          \/ Len(fetched) = 0
          \/ Len(SummaryJiraWorkLogs(groupedJiraEntries')) = 0) =>
           /\ calls' = <<>>
           /\ created' = <<>>
           /\ marked' = {}
           /\ ledger' = ledger
    ]_vars

\* a dry run that had work logs to create, and a ledger with records, has
\* ended without a create
C17_Witness ==
  /\ pc = "done"
  /\ dryRun
  /\ Len(groupedJiraEntries) > 0
  /\ ledger # <<>>
  /\ calls = <<>>

\* C18: the grand total of the summary counts every fetched entry once:
\* totals.totalTimeSeconds is the sum of durationSeconds over the normalized
\* fetched entries.
C18_SummaryCountsEveryEntryOnce ==
  (pc \notin {"start", "idle"} /\ Len(fetched) > 0 /\ failure # "TypeError") =>
    summaryTotals.totalTimeSeconds = SumDurations(ParseAll(fetched))

(***************************************************************************)
(* Claims about the TimetrackerClient (SpecClient).                        *)
(***************************************************************************)
\* the issue id the cache holds for the entry's issue key, null when the entry
\* has no key or the cache has no id for it
CachedIssueId(cache, entry) ==
  IF entry.issueKey # NoValue /\ entry.issueKey \in DOMAIN cache
  THEN cache[entry.issueKey]
  ELSE NoValue

\* C14: prefetchIssueIds runs before a payload of the batch is built and never
\* ends the run; when the bulk lookup throws the cache is what it was; a
\* mapping once cached is never changed; every payload carries the cached id
\* of its issue key or null; no key is requested while it is cached.
C14_PrefetchIsBestEffort ==
  /\ Len(cWorkLogs) > 0 => cPc \in {"building", "built", "threw"}
  /\ cPc = "threw" =>
       /\ Len(cWorkLogs) < Len(cEntries)
       /\ cEntries[Len(cWorkLogs) + 1].hasTags
       /\ ~worklogTagsCache.loaded
  /\ cLookup = "threw" => issueKeyToIdCache = cCacheBefore
  /\ \A key \in DOMAIN cCacheBefore :
       key \in DOMAIN issueKeyToIdCache /\ issueKeyToIdCache[key] = cCacheBefore[key]
  /\ \A n \in 1..Len(cWorkLogs) :
       cWorkLogs[n].issueId = CachedIssueId(issueKeyToIdCache, cEntries[n])
  /\ \A n \in 1..Len(cRequests) :
       \A m \in 1..Len(cRequests[n].keys) :
         cRequests[n].keys[m] \notin cRequests[n].cached

\* a batch built after a failed lookup, with a mapping cached earlier: one
\* payload carries the cached id, another one null for its unresolved key
C14_Witness ==
  /\ cPc = "built"
  /\ cLookup = "threw"
  /\ DOMAIN cCacheBefore # {}
  /\ \E n \in 1..Len(cWorkLogs) : cWorkLogs[n].issueId # NoValue
  /\ \E n \in 1..Len(cWorkLogs) :
       cWorkLogs[n].issueId = NoValue /\ cEntries[n].issueKey # NoValue

(***************************************************************************)
(* Claims about the interactive assignment (SpecMerge).                    *)
(***************************************************************************)
\* the ids of the entries held by the groups
GroupedEntryIds(groups) ==
  UNION {EntryIds(groups[n].entries) : n \in 1..Len(groups)}

\* C19: after the merge of the assigned groups into the pending groups, the
\* group under a key that an assigned group shares with a pending group holds
\* the entries of both and the sum of both totals, and every entry that was in
\* a pending group is in a group after the merge, and in a work log of the
\* summary when the summary is built.
C19_AssignedGroupsAreMergedByKey ==
  mPc \in {"merged", "threw"} =>
    /\ \A a \in 1..Len(mAssigned) :
         \A p \in 1..Len(mPending) :
           mAssigned[a].key = mPending[p].key =>
             LET g == mMerged[IndexOfKey(mMerged, mPending[p].key)] IN
             /\ EntryIds(g.entries)
                  = EntryIds(mPending[p].entries) \cup EntryIds(mAssigned[a].entries)
             /\ g.totalSeconds
                  = mPending[p].totalSeconds + mAssigned[a].totalSeconds
    /\ GroupedEntryIds(mPending) \subseteq GroupedEntryIds(mMerged)
    /\ mPc = "merged" => GroupedEntryIds(mPending) \subseteq GroupedEntryIds(mWorkLogs)

====
